---- MODULE Spec2Model ----
(***************************************************************************)
(* Model of the LROMA and FMIP calculators of investor-state-energy        *)
(* (src/src/lroma_calculator.py, src/src/fmip_model.py).                    *)
(*                                                                         *)
(* Python numbers are modelled by their exact rational value (arbitrary    *)
(* precision, limbs of base 10^4), tagged with the Python type that        *)
(* carries them ("int" or "float"); "str" stands for a non-numeric value.  *)
(* Floating-point rounding is abstracted: a float is the rational it       *)
(* denotes.  An operation yields a value or an exception record [exc, msg], *)
(* msg a record of what the message names.                                 *)
(***************************************************************************)
EXTENDS Integers, Sequences, FiniteSets, TLC

-----------------------------------------------------------------------------
(* Natural numbers of arbitrary size: little-endian limbs, no leading zero. *)

Base == 10 ^ 4

RECURSIVE NatOf(_)
NatOf(n) ==
    IF n = 0 THEN << >> ELSE << n % Base >> \o NatOf(n \div Base)

RECURSIVE BAddC(_, _, _)
BAddC(a, b, c) ==
    IF a = << >> /\ b = << >>
    THEN IF c = 0 THEN << >> ELSE << c >>
    ELSE LET x == IF a = << >> THEN 0 ELSE Head(a)
             y == IF b = << >> THEN 0 ELSE Head(b)
             s == x + y + c
         IN  << s % Base >> \o BAddC(IF a = << >> THEN a ELSE Tail(a),
                                     IF b = << >> THEN b ELSE Tail(b),
                                     s \div Base)

BAdd(a, b) == BAddC(a, b, 0)

RECURSIVE BTrim(_)
BTrim(a) ==
    IF a = << >> THEN a
    ELSE IF a[Len(a)] = 0 THEN BTrim(SubSeq(a, 1, Len(a) - 1)) ELSE a

RECURSIVE BSubC(_, _, _)
BSubC(a, b, c) ==
    IF a = << >> THEN << >>
    ELSE LET y == IF b = << >> THEN 0 ELSE Head(b)
             d == Head(a) - y - c
         IN  << d % Base >> \o BSubC(Tail(a),
                                     IF b = << >> THEN b ELSE Tail(b),
                                     IF d < 0 THEN 1 ELSE 0)

\* a - b for a >= b
BSub(a, b) == BTrim(BSubC(a, b, 0))

RECURSIVE BMulSmallC(_, _, _)
BMulSmallC(a, k, c) ==
    IF a = << >>
    THEN IF c = 0 THEN << >> ELSE << c >>
    ELSE LET p == Head(a) * k + c
         IN  << p % Base >> \o BMulSmallC(Tail(a), k, p \div Base)

RECURSIVE BMul(_, _)
BMul(a, b) ==
    IF a = << >> \/ b = << >> THEN << >>
    ELSE LET rest == BMul(a, Tail(b))
         IN  BAdd(BMulSmallC(a, Head(b), 0),
                  IF rest = << >> THEN rest ELSE << 0 >> \o rest)

RECURSIVE BCmpAt(_, _, _)
BCmpAt(a, b, i) ==
    IF i = 0 THEN 0
    ELSE IF a[i] < b[i] THEN -1
    ELSE IF a[i] > b[i] THEN 1
    ELSE BCmpAt(a, b, i - 1)

\* -1, 0, 1 as a < b, a = b, a > b
BCmp(a, b) ==
    IF Len(a) < Len(b) THEN -1
    ELSE IF Len(a) > Len(b) THEN 1
    ELSE BCmpAt(a, b, Len(a))

RECURSIVE BModSmallAt(_, _, _, _)
BModSmallAt(a, k, i, r) ==
    IF i = 0 THEN r ELSE BModSmallAt(a, k, i - 1, (r * Base + a[i]) % k)

\* a mod k for 0 < k < Base
BModSmall(a, k) == BModSmallAt(a, k, Len(a), 0)

RECURSIVE BDivSmallAt(_, _, _, _)
BDivSmallAt(a, k, i, r) ==
    IF i = 0 THEN << >>
    ELSE LET cur == r * Base + a[i]
         IN  BDivSmallAt(a, k, i - 1, cur % k) \o << cur \div k >>

\* a div k for 0 < k < Base
BDivSmall(a, k) == BTrim(BDivSmallAt(a, k, Len(a), 0))

RECURSIVE BToInt(_)
BToInt(a) ==
    IF a = << >> THEN 0 ELSE Head(a) + Base * BToInt(Tail(a))

-----------------------------------------------------------------------------
(* Signed integers [neg, mag] and rationals [num, den], den > 0.            *)

SOf(i) == [neg |-> i < 0, mag |-> NatOf(IF i < 0 THEN -i ELSE i)]

SNeg(a) == [neg |-> (a.mag # << >>) /\ ~a.neg, mag |-> a.mag]

SAdd(a, b) ==
    IF a.neg = b.neg THEN [neg |-> a.neg, mag |-> BAdd(a.mag, b.mag)]
    ELSE LET c == BCmp(a.mag, b.mag)
         IN  IF c = 0 THEN [neg |-> FALSE, mag |-> << >>]
             ELSE IF c > 0 THEN [neg |-> a.neg, mag |-> BSub(a.mag, b.mag)]
             ELSE [neg |-> b.neg, mag |-> BSub(b.mag, a.mag)]

SMulNat(a, n) ==
    LET m == BMul(a.mag, n)
    IN  [neg |-> a.neg /\ m # << >>, mag |-> m]

SSign(a) == IF a.mag = << >> THEN 0 ELSE IF a.neg THEN -1 ELSE 1

One == NatOf(1)

\* the fraction n / d, d > 0
RatOf(n, d) == [num |-> SOf(n), den |-> NatOf(d)]

RSign(x) == SSign(x.num)

\* Common factors taken out of a fraction (its value is unchanged).
SmallFactors == << 8192, 6561, 3125, 2401, 64, 81, 25, 49, 2, 3, 5, 7 >>

RECURSIVE ReduceBy(_, _)
ReduceBy(x, ks) ==
    IF ks = << >> THEN x
    ELSE IF BModSmall(x.num.mag, Head(ks)) = 0 /\ BModSmall(x.den, Head(ks)) = 0
         THEN ReduceBy([num |-> [neg |-> x.num.neg,
                                 mag |-> BDivSmall(x.num.mag, Head(ks))],
                        den |-> BDivSmall(x.den, Head(ks))], ks)
    ELSE ReduceBy(x, Tail(ks))

Reduce(x) ==
    IF x.num.mag = << >> THEN [num |-> x.num, den |-> NatOf(1)]
    ELSE ReduceBy(x, SmallFactors)

RNeg(x) == [num |-> SNeg(x.num), den |-> x.den]

RAdd(x, y) ==
    Reduce(IF x.den = y.den
           THEN [num |-> SAdd(x.num, y.num), den |-> x.den]
           ELSE [num |-> SAdd(SMulNat(x.num, y.den), SMulNat(y.num, x.den)),
                 den |-> BMul(x.den, y.den)])

RSub(x, y) == RAdd(x, RNeg(y))

RMul(x, y) ==
    LET m == BMul(x.num.mag, y.num.mag)
    IN  Reduce([num |-> [neg |-> (m # << >>) /\ (x.num.neg # y.num.neg), mag |-> m],
                den |-> BMul(x.den, y.den)])

\* x / y for y # 0
RDiv(x, y) ==
    LET m == BMul(x.num.mag, y.den)
    IN  Reduce([num |-> [neg |-> (m # << >>) /\ (x.num.neg # y.num.neg), mag |-> m],
                den |-> BMul(x.den, y.num.mag)])

RECURSIVE RPow(_, _)
RPow(x, t) == IF t = 0 THEN RatOf(1, 1) ELSE RMul(x, RPow(x, t - 1))

\* sign of x - y
RCmp(x, y) == RSign(RSub(x, y))

REq(x, y) == RCmp(x, y) = 0

-----------------------------------------------------------------------------
(* Python values and the arithmetic the calculators apply to them.          *)

PyInt(n) == [kind |-> "int", q |-> RatOf(n, 1)]

PyFloat(n, d) == [kind |-> "float", q |-> RatOf(n, d)]

PyStr == [kind |-> "str"]

PyInf == [kind |-> "inf"]

Raise(type, msg) == [exc |-> type, msg |-> msg]

IsExc(v) == "exc" \in DOMAIN v

IsNum(v) == v.kind \in {"int", "float"}

NumKind(a, b) == IF a.kind = "int" /\ b.kind = "int" THEN "int" ELSE "float"

TypeError == Raise("TypeError", [text |-> "unsupported operand type(s)"])

\* a + b
PyAdd(a, b) ==
    IF IsExc(a) THEN a
    ELSE IF IsExc(b) THEN b
    ELSE IF IsNum(a) /\ IsNum(b)
         THEN [kind |-> NumKind(a, b), q |-> RAdd(a.q, b.q)]
    ELSE IF a.kind = "str" /\ b.kind = "str" THEN PyStr
    ELSE TypeError

\* a - b
PySub(a, b) ==
    IF IsExc(a) THEN a
    ELSE IF IsExc(b) THEN b
    ELSE IF IsNum(a) /\ IsNum(b)
         THEN [kind |-> NumKind(a, b), q |-> RSub(a.q, b.q)]
    ELSE TypeError

\* a * b (a str times an int is a str)
PyMul(a, b) ==
    IF IsExc(a) THEN a
    ELSE IF IsExc(b) THEN b
    ELSE IF IsNum(a) /\ IsNum(b)
         THEN [kind |-> NumKind(a, b), q |-> RMul(a.q, b.q)]
    ELSE IF (a.kind = "str" /\ b.kind = "int") \/ (a.kind = "int" /\ b.kind = "str")
         THEN PyStr
    ELSE TypeError

\* -a
PyNeg(a) ==
    IF IsExc(a) THEN a
    ELSE IF IsNum(a) THEN [kind |-> a.kind, q |-> RNeg(a.q)]
    ELSE TypeError

\* a ** t for an index t >= 0
PyPow(a, t) ==
    IF IsExc(a) THEN a
    ELSE IF IsNum(a) THEN [kind |-> a.kind, q |-> RPow(a.q, t)]
    ELSE TypeError

\* a / b
PyTrueDiv(a, b) ==
    IF IsExc(a) THEN a
    ELSE IF IsExc(b) THEN b
    ELSE IF ~(IsNum(a) /\ IsNum(b)) THEN TypeError
    ELSE IF RSign(b.q) = 0 THEN Raise("ZeroDivisionError", [text |-> "division by zero"])
    ELSE [kind |-> "float", q |-> RDiv(a.q, b.q)]

\* cf / (1 + discount_rate) ** t
Discounted(cf, discount_rate, t) ==
    PyTrueDiv(cf, PyPow(PyAdd(PyInt(1), discount_rate), t))

\* sum(cf / (1 + discount_rate) ** t for t, cf in enumerate(cash_flows, start)),
\* terms i..Len(cash_flows) added to acc from the left
RECURSIVE SumDiscounted(_, _, _, _, _)
SumDiscounted(cash_flows, discount_rate, start, i, acc) ==
    IF i > Len(cash_flows) \/ IsExc(acc) THEN acc
    ELSE SumDiscounted(cash_flows, discount_rate, start, i + 1,
             PyAdd(acc, Discounted(cash_flows[i], discount_rate, start + i - 1)))

-----------------------------------------------------------------------------
(* LROMACalculator.  Each step of a method is an operator over the values   *)
(* the steps before it computed.                                            *)

calculate_npv(cash_flows, discount_rate) ==
    SumDiscounted(cash_flows, discount_rate, 1, 1, PyInt(0))

LromaKeys ==
    << "capex", "annual_distance", "tco_per_km", "freight_rate",
       "discount_rate", "vehicle_life" >>

\* the first of the six subscripts vehicle_params[k] that fails, or "" if none
FirstMissing(d, keys) ==
    LET miss == { i \in 1..Len(keys) : keys[i] \notin DOMAIN d }
    IN  IF miss = {} THEN ""
        ELSE keys[CHOOSE i \in miss : \A j \in miss : i <= j]

KeyError(key) == Raise("KeyError", [key |-> key])

\* [x] * n for an int n: a list of n copies, empty for n <= 0
Repeat(x, n) ==
    LET k == IF RSign(n.q) <= 0 THEN 0 ELSE BToInt(n.q.num.mag)
    IN  [i \in 1..k |-> x]

\* Levelized without the test on pv_distance
Levelized_Unguarded(npv, pv_distance) ==
    IF IsExc(npv) THEN npv
    ELSE IF IsExc(pv_distance) THEN pv_distance
    ELSE PyTrueDiv(npv, pv_distance)

\* lroma = npv / pv_distance if pv_distance != 0 else 0
Levelized(npv, pv_distance) ==
    IF IsExc(npv) THEN npv
    ELSE IF IsExc(pv_distance) THEN pv_distance
    ELSE IF RSign(pv_distance.q) # 0 THEN PyTrueDiv(npv, pv_distance)
    ELSE PyInt(0)

\* LromaOfFlows without the outlay in cash_flows (profits only, from year 1)
LromaOfFlows_NoOutlay(annual_distance, discount_rate, vehicle_life, annual_profit, outlay) ==
    IF IsExc(annual_profit) THEN annual_profit
    ELSE IF IsExc(outlay) THEN outlay
    ELSE IF vehicle_life.kind # "int" THEN TypeError
    ELSE Levelized(
             SumDiscounted(Repeat(annual_profit, vehicle_life),
                           discount_rate, 1, 1, PyInt(0)),
             SumDiscounted(Repeat(annual_distance, vehicle_life),
                           discount_rate, 1, 1, PyInt(0)))

\* cash_flows = [-capex] + [annual_profit] * vehicle_life, its npv from year 0,
\* and pv_distance over the years 1..vehicle_life
LromaOfFlows(annual_distance, discount_rate, vehicle_life, annual_profit, outlay) ==
    IF IsExc(annual_profit) THEN annual_profit
    ELSE IF IsExc(outlay) THEN outlay
    ELSE IF vehicle_life.kind # "int" THEN TypeError
    ELSE Levelized(
             SumDiscounted(<< outlay >> \o Repeat(annual_profit, vehicle_life),
                           discount_rate, 0, 1, PyInt(0)),
             SumDiscounted(Repeat(annual_distance, vehicle_life),
                           discount_rate, 1, 1, PyInt(0)))

\* calculate_lroma with cash_flows = [capex]: the outlay entered as an inflow
calculate_lroma_InflowOutlay(vehicle_params) ==
    IF FirstMissing(vehicle_params, LromaKeys) # ""
    THEN KeyError(FirstMissing(vehicle_params, LromaKeys))
    ELSE LromaOfFlows(vehicle_params["annual_distance"],
                      vehicle_params["discount_rate"],
                      vehicle_params["vehicle_life"],
                      PyMul(vehicle_params["annual_distance"],
                            PySub(vehicle_params["freight_rate"],
                                  vehicle_params["tco_per_km"])),
                      vehicle_params["capex"])

calculate_lroma(vehicle_params) ==
    IF FirstMissing(vehicle_params, LromaKeys) # ""
    THEN KeyError(FirstMissing(vehicle_params, LromaKeys))
    ELSE LromaOfFlows(vehicle_params["annual_distance"],
                      vehicle_params["discount_rate"],
                      vehicle_params["vehicle_life"],
                      PyMul(vehicle_params["annual_distance"],
                            PySub(vehicle_params["freight_rate"],
                                  vehicle_params["tco_per_km"])),
                      PyNeg(vehicle_params["capex"]))

\* modified_params = base_params: no copy, a second name for the same object
DictCopy_Alias(store, src, dst) == [store |-> store, ref |-> src]

\* d.copy() bound to the name dst: a new dict object with d's items
DictCopy(store, src, dst) ==
    [store |-> [n \in DOMAIN store \cup {dst} |->
                    IF n = dst THEN store[src] ELSE store[n]],
     ref |-> dst]

\* object[key] = value on the dict object the reference names
SetItem(store, ref, key, value) ==
    [store EXCEPT ![ref] =
        [k \in DOMAIN store[ref] \cup {key} |->
            IF k = key THEN value ELSE store[ref][k]]]

\* for name, values in ranges.items(): for value in values: the points in order
RECURSIVE Points(_)
Points(ranges) ==
    IF ranges = << >> THEN << >>
    ELSE [i \in 1..Len(Head(ranges).values) |->
             [parameter |-> Head(ranges).name, value |-> Head(ranges).values[i]]]
         \o Points(Tail(ranges))

LromaCaught == {"KeyError", "ZeroDivisionError"}

RECURSIVE LromaSweep(_, _, _, _, _)

\* results.append(...) or the except clause, then the next point
LromaRow(stored, lroma, points, i, results, warnings) ==
    IF ~IsExc(lroma)
    THEN LromaSweep(stored, points, i + 1,
             Append(results, [parameter |-> points[i].parameter,
                              value |-> points[i].value,
                              lroma |-> lroma]),
             warnings)
    ELSE IF lroma.exc \in LromaCaught
    THEN LromaSweep(stored, points, i + 1, results, Append(warnings, points[i]))
    ELSE [store |-> stored, out |-> lroma]

\* lroma = self.calculate_lroma(modified_params)
LromaTry(stored, ref, points, i, results, warnings) ==
    LromaRow(stored, calculate_lroma(stored[ref]), points, i, results, warnings)

\* modified_params[param_name] = value
LromaModify(copied, points, i, results, warnings) ==
    LromaTry(SetItem(copied.store, copied.ref, points[i].parameter, points[i].value),
             copied.ref, points, i, results, warnings)

\* the loop of sensitivity_analysis from point i on
LromaSweep(store, points, i, results, warnings) ==
    IF i > Len(points)
    THEN [store |-> store, out |-> [rows |-> results, warnings |-> warnings]]
    ELSE LromaModify(DictCopy(store, "base_params", "modified_params"),
                     points, i, results, warnings)

LromaSwept(run) == [out |-> run.out, base_params |-> run.store["base_params"]]

\* LROMACalculator.sensitivity_analysis: the result (or the exception that
\* leaves the call) and the caller's base_params object after the call
LROMA_sensitivity_analysis(base_params, parameter_ranges) ==
    LromaSwept(LromaSweep([base_params |-> base_params],
                          Points(parameter_ranges), 1, << >>, << >>))

RLess(x, y) == RCmp(x, y) < 0

EmptyDict == [k \in {} |-> PyInt(0)]

BreakevenPoints(vehicle_params, target_lroma, base_lroma) ==
    IF IsExc(base_lroma) THEN base_lroma
    ELSE IF RLess(base_lroma.q, target_lroma.q)
    THEN [freight_rate |->
             PyAdd(vehicle_params["freight_rate"],
                   PyMul(PySub(target_lroma, base_lroma), PyInt(2)))]
    ELSE EmptyDict

calculate_breakeven(vehicle_params, target_lroma) ==
    BreakevenPoints(vehicle_params, target_lroma, calculate_lroma(vehicle_params))

-----------------------------------------------------------------------------
(* FMIPCalculator.  A parameter mapping is a dict in insertion order: a      *)
(* sequence of [name, params] with distinct names.                          *)

HasKey(parameters, name) == \E i \in 1..Len(parameters) : parameters[i].name = name

Keys(parameters) == [i \in 1..Len(parameters) |-> parameters[i].name]

GetItem(parameters, name) ==
    parameters[CHOOSE i \in 1..Len(parameters) : parameters[i].name = name].params

calculate_present_value(cash_flows, discount_rate) ==
    IF cash_flows = << >> THEN PyFloat(0, 1)
    ELSE SumDiscounted(cash_flows, discount_rate, 1, 1, PyInt(0))

NotFound(scenario, available) ==
    Raise("KeyError", [text |-> "not found in parameters. Available:",
                       scenario |-> scenario, available |-> available])

MissingParameter(scenario, field) ==
    Raise("KeyError", [text |-> "Missing required parameter in scenario",
                       scenario |-> scenario, field |-> field])

\* PresentValueOf without the except clause: the subscript's own KeyError
PresentValueOf_Unwrapped(scenario, scenario_params, flows) ==
    IF flows \notin DOMAIN scenario_params
    THEN KeyError(flows)
    ELSE IF "social_discount_rate" \notin DOMAIN scenario_params
    THEN KeyError("social_discount_rate")
    ELSE calculate_present_value(scenario_params[flows],
                                 scenario_params["social_discount_rate"])

\* calculate_present_value(scenario_params[flows], scenario_params[rate]) inside
\* the try block: a failing subscript is re-raised naming scenario and field
PresentValueOf(scenario, scenario_params, flows) ==
    IF flows \notin DOMAIN scenario_params
    THEN MissingParameter(scenario, flows)
    ELSE IF "social_discount_rate" \notin DOMAIN scenario_params
    THEN MissingParameter(scenario, "social_discount_rate")
    ELSE calculate_present_value(scenario_params[flows],
                                 scenario_params["social_discount_rate"])

\* Multiplier with the sign test >= 0: a zero return over a zero investment
\* reported as infinite
Multiplier_NonNegative(pv_public_investment, total_fiscal_return) ==
    IF RSign(pv_public_investment.q) = 0
    THEN IF RSign(total_fiscal_return.q) >= 0 THEN PyInf ELSE PyFloat(0, 1)
    ELSE PyTrueDiv(total_fiscal_return, pv_public_investment)

\* the zero-division protection and the ratio
Multiplier(pv_public_investment, total_fiscal_return) ==
    IF RSign(pv_public_investment.q) = 0
    THEN IF RSign(total_fiscal_return.q) > 0 THEN PyInf ELSE PyFloat(0, 1)
    ELSE PyTrueDiv(total_fiscal_return, pv_public_investment)

\* the result record, or the first exception among the three present values
FmipResult(scenario, pv_public_investment, pv_tax_revenues, pv_fiscal_avoidance) ==
    IF IsExc(pv_public_investment) THEN pv_public_investment
    ELSE IF IsExc(pv_tax_revenues) THEN pv_tax_revenues
    ELSE IF IsExc(pv_fiscal_avoidance) THEN pv_fiscal_avoidance
    ELSE [fmip |-> Multiplier(pv_public_investment,
                              PyAdd(pv_tax_revenues, pv_fiscal_avoidance)),
          pv_public_investment |-> pv_public_investment,
          pv_tax_revenues |-> pv_tax_revenues,
          pv_fiscal_avoidance |-> pv_fiscal_avoidance,
          total_fiscal_return |-> PyAdd(pv_tax_revenues, pv_fiscal_avoidance),
          scenario |-> scenario]

FmipOf(scenario, scenario_params) ==
    FmipResult(scenario,
        PresentValueOf(scenario, scenario_params, "public_investment_cashflows"),
        PresentValueOf(scenario, scenario_params, "tax_revenue_cashflows"),
        PresentValueOf(scenario, scenario_params, "fiscal_avoidance_cashflows"))

calculate_fmip(parameters, scenario) ==
    IF ~HasKey(parameters, scenario)
    THEN NotFound(scenario, Keys(parameters))
    ELSE FmipOf(scenario, GetItem(parameters, scenario))

DefaultScenarios == << "base_case", "pessimistic", "optimistic", "ssb_disruption" >>

ComparisonCaught == {"KeyError", "ValueError"}

RECURSIVE ComparisonLoop(_, _, _, _, _)

\* results.append(...) or the except clause, then the next scenario
ComparisonRow(parameters, scenarios, i, results, warnings, fmip_result) ==
    IF ~IsExc(fmip_result)
    THEN ComparisonLoop(parameters, scenarios, i + 1,
             Append(results,
                 [scenario |-> scenarios[i],
                  fmip |-> fmip_result.fmip,
                  public_investment |-> fmip_result.pv_public_investment,
                  tax_revenues |-> fmip_result.pv_tax_revenues,
                  fiscal_avoidance |-> fmip_result.pv_fiscal_avoidance,
                  total_fiscal_return |-> fmip_result.total_fiscal_return]),
             warnings)
    ELSE IF fmip_result.exc \in ComparisonCaught
    THEN ComparisonLoop(parameters, scenarios, i + 1, results,
                        Append(warnings, scenarios[i]))
    ELSE fmip_result

ComparisonLoop(parameters, scenarios, i, results, warnings) ==
    IF i > Len(scenarios) THEN [rows |-> results, warnings |-> warnings]
    ELSE ComparisonRow(parameters, scenarios, i, results, warnings,
                       calculate_fmip(parameters, scenarios[i]))

\* scenarios is [none |-> TRUE] for an omitted argument, else [none, names]
scenario_comparison(parameters, scenarios) ==
    ComparisonLoop(parameters,
                   IF scenarios.none THEN DefaultScenarios ELSE scenarios.names,
                   1, << >>, << >>)

\* the parameter names of the model that end with "_cashflows"
CashflowNames ==
    {"public_investment_cashflows", "tax_revenue_cashflows",
     "fiscal_avoidance_cashflows"}

EndsWithCashflows(param_name) == param_name \in CashflowNames

FirstExc(scaled, bad) ==
    IF bad = {} THEN [list |-> scaled]
    ELSE scaled[CHOOSE j \in bad : \A k \in bad : j <= k]

Failing(scaled) == { j \in 1..Len(scaled) : IsExc(scaled[j]) }

\* [x * value for x in flows]: the list, or the first exception
ScaleAll(flows, value) ==
    FirstExc([j \in 1..Len(flows) |-> PyMul(flows[j], value)],
             Failing([j \in 1..Len(flows) |-> PyMul(flows[j], value)]))

TempKey(param_name, value) == << "temp", param_name, value >>

\* temp_calculator = FMIPCalculator({key: modified_params});
\* temp_calculator.calculate_fmip(key)
FmipTemp(stored, ref, key) ==
    [store |-> stored,
     res |-> calculate_fmip(<< [name |-> key, params |-> stored[ref]] >>, key)]

\* FmipScaled leaving the sequence as it was in base_params (no scaling)
FmipScaled_Unscaled(copied, point, scaled) ==
    IF IsExc(scaled) THEN [store |-> copied.store, res |-> scaled]
    ELSE FmipTemp(copied.store, copied.ref,
                  TempKey(point.parameter, point.value))

\* modified_params[param_name] = [x * value for ...]
FmipScaled(copied, point, scaled) ==
    IF IsExc(scaled) THEN [store |-> copied.store, res |-> scaled]
    ELSE FmipTemp(SetItem(copied.store, copied.ref, point.parameter, scaled.list),
                  copied.ref, TempKey(point.parameter, point.value))

\* the two branches on param_name.endswith('_cashflows')
FmipModify(copied, point) ==
    IF EndsWithCashflows(point.parameter)
    THEN IF point.parameter \notin DOMAIN copied.store[copied.ref]
         THEN [store |-> copied.store, res |-> KeyError(point.parameter)]
         ELSE FmipScaled(copied, point,
                  ScaleAll(copied.store[copied.ref][point.parameter], point.value))
    ELSE FmipTemp(SetItem(copied.store, copied.ref, point.parameter, point.value),
                  copied.ref, TempKey(point.parameter, point.value))

\* The try block of one sweep point: the store after it and the fmip result
\* or the exception caught.
FmipPoint(store, point) ==
    FmipModify(DictCopy(store, "base_params", "modified_params"), point)

RECURSIVE FmipSweep(_, _, _, _, _, _)

\* results.append(...) or except Exception, then the next point
FmipRow(step, base_scenario, points, i, results, warnings) ==
    IF ~IsExc(step.res)
    THEN FmipSweep(step.store, base_scenario, points, i + 1,
             Append(results, [parameter |-> points[i].parameter,
                              value |-> points[i].value,
                              fmip |-> step.res.fmip,
                              scenario |-> base_scenario]),
             warnings)
    ELSE FmipSweep(step.store, base_scenario, points, i + 1, results,
                   Append(warnings, points[i]))

FmipSweep(store, base_scenario, points, i, results, warnings) ==
    IF i > Len(points)
    THEN [store |-> store, out |-> [rows |-> results, warnings |-> warnings]]
    ELSE FmipRow(FmipPoint(store, points[i]), base_scenario, points, i,
                 results, warnings)

FmipSwept(parameters, base_scenario, run) ==
    [out |-> run.out,
     parameters |-> [i \in 1..Len(parameters) |->
         IF parameters[i].name = base_scenario
         THEN [name |-> base_scenario, params |-> run.store["base_params"]]
         ELSE parameters[i]]]

\* FMIPCalculator.sensitivity_analysis: the result (or the exception that
\* leaves the call) and the calculator's parameter mapping after the call
FMIP_sensitivity_analysis(parameters, base_scenario, parameter_variations) ==
    IF ~HasKey(parameters, base_scenario)
    THEN [out |-> KeyError(base_scenario), parameters |-> parameters]
    ELSE FmipSwept(parameters, base_scenario,
             FmipSweep([base_params |-> GetItem(parameters, base_scenario)],
                       base_scenario, Points(parameter_variations),
                       1, << >>, << >>))

-----------------------------------------------------------------------------
(* The inputs callers supply, drawn from bounded sets.                      *)

MaxLife == 2

MaxFlows == 2

Vehicle(capex, annual_distance, tco_per_km, freight_rate, discount_rate, vehicle_life) ==
    [capex |-> capex, annual_distance |-> annual_distance,
     tco_per_km |-> tco_per_km, freight_rate |-> freight_rate,
     discount_rate |-> discount_rate, vehicle_life |-> vehicle_life]

\* base_parameters of run_analysis.py and of test_lroma_basic
BaseVehicle ==
    Vehicle(PyInt(4800000), PyInt(100000), PyFloat(66, 5), PyFloat(25, 1),
            PyFloat(2, 25), PyInt(8))

SmallVehicle ==
    Vehicle(PyInt(1), PyInt(10), PyInt(2), PyInt(5), PyFloat(1, 4), PyInt(1))

Without(d, key) == [k \in DOMAIN d \ {key} |-> d[k]]

Rates == {PyInt(-1), PyInt(0), PyFloat(1, 4)}

VehicleInputs ==
    { Vehicle(c, d, PyInt(2), f, r, PyInt(l)) :
        c \in {PyInt(1), PyInt(100)}, d \in {PyInt(0), PyInt(10)},
        f \in {PyInt(2), PyInt(5)}, r \in Rates \cup {PyInt(-2)},
        l \in 0..MaxLife }
    \cup { BaseVehicle,
           Without(BaseVehicle, "capex"),
           Without(SmallVehicle, "tco_per_km"),
           Vehicle(PyInt(1), PyStr, PyInt(2), PyInt(5), PyInt(0), PyInt(0)) }

Flows(values) == UNION { [1..n -> values] : n \in 0..MaxFlows }

Scenario(investment, tax, avoidance, rate) ==
    [public_investment_cashflows |-> investment,
     tax_revenue_cashflows |-> tax,
     fiscal_avoidance_cashflows |-> avoidance,
     social_discount_rate |-> rate]

Scenarios ==
    { Scenario(i, t, a, r) :
        i \in Flows({PyInt(10), PyInt(-10)}),
        t \in {<< >>, << PyInt(5) >>, << PyInt(-5) >>},
        a \in {<< >>, << PyFloat(5, 2) >>},
        r \in Rates }

GoodScenario ==
    Scenario(<< PyInt(10), PyInt(10) >>, << PyInt(5), PyInt(15) >>,
             << PyInt(4) >>, PyFloat(1, 4))

OtherScenarios ==
    { GoodScenario,
      Without(GoodScenario, "tax_revenue_cashflows"),
      Without(GoodScenario, "social_discount_rate"),
      [GoodScenario EXCEPT !["social_discount_rate"] = PyInt(-1)],
      Without([GoodScenario EXCEPT !["social_discount_rate"] = PyInt(-1)],
              "fiscal_avoidance_cashflows"),
      [GoodScenario EXCEPT !["tax_revenue_cashflows"] = << PyStr >>] }

Parameters(base, other) ==
    << [name |-> "base_case", params |-> base],
       [name |-> "pessimistic", params |-> other] >>

ParameterInputs ==
    { Parameters(b, GoodScenario) : b \in Scenarios }
    \cup { Parameters(GoodScenario, o) : o \in OtherScenarios }
    \cup { Parameters(o, GoodScenario) : o \in OtherScenarios }
    \cup { << >> }

Range(name, values) == [name |-> name, values |-> values]

LromaRanges ==
    { << >>,
      << Range("capex", << PyInt(1), PyStr, PyInt(100) >>) >>,
      << Range("discount_rate", << PyInt(-1), PyFloat(1, 4) >>),
         Range("tco_per_km", << PyInt(1) >>) >>,
      << Range("vehicle_life", << PyInt(1), PyFloat(5, 2), PyInt(2) >>) >>,
      << Range("fleet_size", << PyInt(3) >>),
         Range("freight_rate", << PyInt(3), PyInt(9) >>) >> }

FmipVariations ==
    { << >>,
      << Range("tax_revenue_cashflows", << PyFloat(1, 2), PyInt(2) >>),
         Range("social_discount_rate", << PyInt(-1), PyInt(0) >>) >>,
      << Range("public_investment_cashflows", << PyInt(0), PyStr, PyInt(3) >>) >>,
      << Range("social_discount_rate", << PyStr, PyFloat(1, 2) >>),
         Range("fiscal_avoidance_cashflows", << PyInt(-1) >>) >> }

ScenarioNames == {"base_case", "pessimistic", "optimistic"}

ScenarioLists ==
    { [none |-> TRUE],
      [none |-> FALSE, names |-> << >>],
      [none |-> FALSE, names |-> << "pessimistic", "base_case" >>],
      [none |-> FALSE, names |-> << "optimistic", "base_case", "pessimistic" >>] }

FlowInputs == Flows({PyInt(10)}) \cup { << PyInt(-100), PyInt(110) >> }

Targets == {PyInt(0), PyInt(5)}

-----------------------------------------------------------------------------
(* The callers and the calculators as a state machine.                      *)

VARIABLES
    vehicle_params,   \* the caller's mapping handed to the LROMA calculator
    parameters,       \* the mapping the FMIP calculator was constructed with
    supplied,         \* both as the caller supplied them (history)
    pc,               \* "idle", or "returned" after a call
    call,             \* the last call: [op, args]
    outcome           \* what it returned or raised

vars == << vehicle_params, parameters, supplied, pc, call, outcome >>

NoCall == [op |-> "none"]

NoOutcome == [kind |-> "none"]

Init ==
    /\ \/ vehicle_params \in VehicleInputs /\ parameters = Parameters(GoodScenario, GoodScenario)
       \/ vehicle_params = SmallVehicle /\ parameters \in ParameterInputs
    /\ supplied = [vehicle_params |-> vehicle_params, parameters |-> parameters]
    /\ pc = "idle"
    /\ call = NoCall
    /\ outcome = NoOutcome

Returned(op, args, result) ==
    /\ pc = "idle"
    /\ pc' = "returned"
    /\ call' = [op |-> op, args |-> args]
    /\ outcome' = result

CalculateNpv ==
    \E cash_flows \in FlowInputs, discount_rate \in Rates :
        /\ Returned("calculate_npv", << cash_flows, discount_rate >>,
                    calculate_npv(cash_flows, discount_rate))
        /\ UNCHANGED << vehicle_params, parameters, supplied >>

CalculateLroma ==
    /\ Returned("calculate_lroma", << >>, calculate_lroma(vehicle_params))
    /\ UNCHANGED << vehicle_params, parameters, supplied >>

LromaSensitivityReturns(parameter_ranges, done) ==
    /\ Returned("lroma_sensitivity_analysis", << parameter_ranges >>, done.out)
    /\ vehicle_params' = done.base_params
    /\ UNCHANGED << parameters, supplied >>

LromaSensitivityAnalysis ==
    \E parameter_ranges \in LromaRanges :
        LromaSensitivityReturns(parameter_ranges,
                    LROMA_sensitivity_analysis(vehicle_params, parameter_ranges))

CalculateBreakeven ==
    \E target_lroma \in Targets :
        /\ Returned("calculate_breakeven", << target_lroma >>,
                    calculate_breakeven(vehicle_params, target_lroma))
        /\ UNCHANGED << vehicle_params, parameters, supplied >>

CalculatePresentValue ==
    \E cash_flows \in FlowInputs, discount_rate \in Rates :
        /\ Returned("calculate_present_value", << cash_flows, discount_rate >>,
                    calculate_present_value(cash_flows, discount_rate))
        /\ UNCHANGED << vehicle_params, parameters, supplied >>

CalculateFmip ==
    \E scenario \in ScenarioNames :
        /\ Returned("calculate_fmip", << scenario >>,
                    calculate_fmip(parameters, scenario))
        /\ UNCHANGED << vehicle_params, parameters, supplied >>

ScenarioComparison ==
    \E scenarios \in ScenarioLists :
        /\ Returned("scenario_comparison", << scenarios >>,
                    scenario_comparison(parameters, scenarios))
        /\ UNCHANGED << vehicle_params, parameters, supplied >>

FmipSensitivityReturns(base_scenario, parameter_variations, done) ==
    /\ Returned("fmip_sensitivity_analysis",
                << base_scenario, parameter_variations >>, done.out)
    /\ parameters' = done.parameters
    /\ UNCHANGED << vehicle_params, supplied >>

FmipSensitivityAnalysis ==
    \E base_scenario \in ScenarioNames, parameter_variations \in FmipVariations :
        FmipSensitivityReturns(base_scenario, parameter_variations,
                   FMIP_sensitivity_analysis(parameters, base_scenario,
                                             parameter_variations))

\* the caller takes the result and is ready for the next call
Resume ==
    /\ pc = "returned"
    /\ pc' = "idle"
    /\ call' = NoCall
    /\ outcome' = NoOutcome
    /\ UNCHANGED << vehicle_params, parameters, supplied >>

Next ==
    \/ CalculateNpv
    \/ CalculateLroma
    \/ LromaSensitivityAnalysis
    \/ CalculateBreakeven
    \/ CalculatePresentValue
    \/ CalculateFmip
    \/ ScenarioComparison
    \/ FmipSensitivityAnalysis
    \/ Resume

Spec == Init /\ [][Next]_vars

-----------------------------------------------------------------------------
(* Properties.                                                             *)

ReturnedFrom(op) == pc = "returned" /\ call.op = op

Gt(v, w) == RCmp(v.q, w.q) > 0

\* all six keys present and numeric, vehicle_life an int
WellTyped(vp) ==
    /\ FirstMissing(vp, LromaKeys) = ""
    /\ \A k \in DOMAIN vp : IsNum(vp[k])
    /\ vp["vehicle_life"].kind = "int"

\* capex > 0, annual_distance > 0, vehicle_life >= 1
ValidVehicle(vp) ==
    /\ WellTyped(vp)
    /\ Gt(vp["capex"], PyInt(0))
    /\ Gt(vp["annual_distance"], PyInt(0))
    /\ Gt(vp["vehicle_life"], PyInt(0))

\* the sum over t = 1..n of (1 + r) ^ (-t), for r # -1
RECURSIVE Annuity(_, _)
Annuity(r, n) ==
    IF n = 0 THEN RatOf(0, 1)
    ELSE RAdd(Annuity(r, n - 1),
              RDiv(RatOf(1, 1), RPow(RAdd(RatOf(1, 1), r), n)))

LifeOf(vp) == BToInt(vp["vehicle_life"].q.num.mag)

\* annual_distance * (freight_rate - tco_per_km) * Annuity - capex
NetPresentValue(vp) ==
    RSub(RMul(RMul(vp["annual_distance"].q,
                   RSub(vp["freight_rate"].q, vp["tco_per_km"].q)),
              Annuity(vp["discount_rate"].q, LifeOf(vp))),
         vp["capex"].q)

C1_Case ==
    /\ ReturnedFrom("calculate_lroma")
    /\ ValidVehicle(vehicle_params)
    /\ Gt(vehicle_params["discount_rate"], PyInt(-1))
    /\ Gt(vehicle_params["freight_rate"], vehicle_params["tco_per_km"])

\* C1 as stated: with capex > 0, annual_distance > 0, discount_rate > -1,
\* vehicle_life >= 1 and freight_rate > tco_per_km, calculate_lroma returns a
\* value strictly greater than 0.
C1_Original ==
    C1_Case => ~IsExc(outcome) /\ IsNum(outcome) /\ RSign(outcome.q) > 0

\* C1 amended: under the same conditions calculate_lroma returns a number whose
\* sign is the sign of the discounted profits less capex: it is strictly
\* positive exactly when annual_distance * (freight_rate - tco_per_km) *
\* sum_{t=1..life} (1+r)^-t exceeds capex, and zero or negative otherwise.
C1_SignOfNpv ==
    C1_Case => /\ ~IsExc(outcome)
               /\ IsNum(outcome)
               /\ RSign(outcome.q) = RSign(NetPresentValue(vehicle_params))

C1_Witness ==
    /\ C1_Case
    /\ ~IsExc(outcome)
    /\ RSign(outcome.q) > 0

C1_WitnessNegative ==
    /\ C1_Case
    /\ ~IsExc(outcome)
    /\ RSign(outcome.q) < 0

C2_Case ==
    /\ ReturnedFrom("calculate_lroma")
    /\ ValidVehicle(vehicle_params)
    /\ REq(vehicle_params["freight_rate"].q, vehicle_params["tco_per_km"].q)

\* C2 as stated: for valid vehicle_params with freight_rate == tco_per_km,
\* calculate_lroma returns exactly 0.
C2_Original ==
    C2_Case => ~IsExc(outcome) /\ IsNum(outcome) /\ RSign(outcome.q) = 0

\* C2 amended: for valid vehicle_params with discount_rate > -1 and
\* freight_rate == tco_per_km, calculate_lroma returns -capex / pv_distance
\* (pv_distance = annual_distance * sum_{t=1..life} (1+r)^-t), which is
\* strictly negative, never 0.
C2_NegativeOutlayPerKm ==
    C2_Case /\ Gt(vehicle_params["discount_rate"], PyInt(-1))
    => /\ ~IsExc(outcome)
       /\ IsNum(outcome)
       /\ RSign(outcome.q) < 0
       /\ REq(RMul(outcome.q,
                   RMul(vehicle_params["annual_distance"].q,
                        Annuity(vehicle_params["discount_rate"].q,
                                LifeOf(vehicle_params)))),
              RNeg(vehicle_params["capex"].q))

C2_Witness ==
    /\ C2_Case
    /\ Gt(vehicle_params["discount_rate"], PyInt(-1))
    /\ ~IsExc(outcome)
    /\ RSign(outcome.q) < 0

C10_Case == ReturnedFrom("calculate_lroma") /\ vehicle_params = BaseVehicle

\* lo / 1000 <= v < hi / 1000
Within(v, lo, hi) ==
    /\ RCmp(v.q, RatOf(lo, 1000)) >= 0
    /\ RCmp(v.q, RatOf(hi, 1000)) < 0

\* C10 as stated: for capex=4,800,000, annual_distance=100,000,
\* tco_per_km=13.20, freight_rate=25.00, discount_rate=0.08, vehicle_life=8,
\* calculate_lroma returns a finite positive value approximately 6.88
\* (6.88 to two decimals).
C10_Original ==
    C10_Case => /\ ~IsExc(outcome)
                /\ IsNum(outcome)
                /\ RSign(outcome.q) > 0
                /\ Within(outcome, 6875, 6885)

\* C10 amended: for that input calculate_lroma returns a finite positive value
\* approximately 3.45 (3.447 to three decimals).
C10_About345 ==
    C10_Case => /\ ~IsExc(outcome)
                /\ IsNum(outcome)
                /\ RSign(outcome.q) > 0
                /\ Within(outcome, 3447, 3448)

C10_Witness == C10_Case /\ ~IsExc(outcome) /\ RSign(outcome.q) > 0

Arg(i) == call.args[i]

FmipFields ==
    << "public_investment_cashflows", "tax_revenue_cashflows",
       "fiscal_avoidance_cashflows" >>

AllFields == {FmipFields[i] : i \in 1..3} \cup {"social_discount_rate"}

Complete(params, name) ==
    HasKey(params, name) /\ AllFields \subseteq DOMAIN GetItem(params, name)

\* sum over i of flows[i] / (1 + r) ^ (origin + i - 1), for numeric flows, r # -1
RECURSIVE DiscountedSum(_, _, _)
DiscountedSum(flows, r, origin) ==
    IF flows = << >> THEN RatOf(0, 1)
    ELSE RAdd(RDiv(Head(flows).q, RPow(RAdd(RatOf(1, 1), r), origin)),
              DiscountedSum(Tail(flows), r, origin + 1))

\* a present value of the FMIP calculator can be computed: the sequence is
\* empty, or flows and rate are numeric and the rate is not -1
Computable(flows, rate) ==
    \/ flows = << >>
    \/ /\ IsNum(rate)
       /\ RCmp(rate.q, RatOf(-1, 1)) # 0
       /\ \A i \in 1..Len(flows) : IsNum(flows[i])

C3_Case ==
    /\ ReturnedFrom("calculate_fmip")
    /\ Complete(parameters, Arg(1))
    /\ \A i \in 1..3 :
           Computable(GetItem(parameters, Arg(1))[FmipFields[i]],
                      GetItem(parameters, Arg(1))["social_discount_rate"])

PvOf(i) ==
    DiscountedSum(GetItem(parameters, Arg(1))[FmipFields[i]],
                  GetItem(parameters, Arg(1))["social_discount_rate"].q, 1)

\* C3: calculate_fmip raises no division error on a zero investment present
\* value: with pv_public_investment == 0 it returns fmip = +infinity if
\* pv_tax_revenues + pv_fiscal_avoidance > 0 and fmip = 0.0 otherwise (a negative
\* total included); with pv_public_investment != 0 it returns the ratio of the
\* total to pv_public_investment; total_fiscal_return is always the sum.
C3_ZeroInvestment ==
    C3_Case =>
        /\ ~IsExc(outcome)
        /\ REq(outcome.pv_public_investment.q, PvOf(1))
        /\ REq(outcome.total_fiscal_return.q, RAdd(PvOf(2), PvOf(3)))
        /\ REq(outcome.total_fiscal_return.q,
               RAdd(outcome.pv_tax_revenues.q, outcome.pv_fiscal_avoidance.q))
        /\ IF RSign(PvOf(1)) = 0
           THEN IF RSign(RAdd(PvOf(2), PvOf(3))) > 0
                THEN outcome.fmip.kind = "inf"
                ELSE outcome.fmip.kind = "float" /\ RSign(outcome.fmip.q) = 0
           ELSE /\ IsNum(outcome.fmip)
                /\ REq(RMul(outcome.fmip.q, PvOf(1)), RAdd(PvOf(2), PvOf(3)))

C3_Witness ==
    /\ C3_Case
    /\ ~IsExc(outcome)
    /\ RSign(outcome.pv_public_investment.q) = 0
    /\ Len(GetItem(parameters, Arg(1))["public_investment_cashflows"]) = 2
    /\ outcome.fmip.kind = "inf"

C3_WitnessZero ==
    /\ C3_Case
    /\ ~IsExc(outcome)
    /\ RSign(outcome.pv_public_investment.q) = 0
    /\ RSign(outcome.total_fiscal_return.q) < 0
    /\ outcome.fmip.kind = "float"

NamesNotFound(name) ==
    /\ IsExc(outcome)
    /\ outcome.exc = "KeyError"
    /\ {"scenario", "available"} \subseteq DOMAIN outcome.msg
    /\ outcome.msg.scenario = name
    /\ outcome.msg.available = Keys(parameters)

NamesMissing(name, fields) ==
    /\ IsExc(outcome)
    /\ outcome.exc = "KeyError"
    /\ {"scenario", "field"} \subseteq DOMAIN outcome.msg
    /\ outcome.msg.scenario = name
    /\ outcome.msg.field \in fields

\* C4 as stated: calculate_fmip(name) returns a result record if and only if
\* name is a key and the scenario holds all four fields; an unknown name gives
\* a not-found error naming the scenario and listing every key; an absent field
\* gives a required-field error naming scenario and field; in both error cases
\* no result is produced and the parameter mapping is unchanged.
C4_Original ==
    ReturnedFrom("calculate_fmip") =>
        /\ ~IsExc(outcome) <=> Complete(parameters, Arg(1))
        /\ ~HasKey(parameters, Arg(1)) => NamesNotFound(Arg(1))
        /\ HasKey(parameters, Arg(1)) /\ ~Complete(parameters, Arg(1))
           => NamesMissing(Arg(1), AllFields \ DOMAIN GetItem(parameters, Arg(1)))
        /\ IsExc(outcome) => parameters = supplied.parameters

\* What the reads of calculate_fmip meet first, in the order of the three
\* sequences (each followed by the rate): an absent field, or a present value
\* that cannot be computed.
RECURSIVE FirstFailure(_, _)
FirstFailure(scenario_params, i) ==
    IF i > 3 THEN [kind |-> "none"]
    ELSE IF FmipFields[i] \notin DOMAIN scenario_params
    THEN [kind |-> "absent", field |-> FmipFields[i]]
    ELSE IF "social_discount_rate" \notin DOMAIN scenario_params
    THEN [kind |-> "absent", field |-> "social_discount_rate"]
    ELSE IF ~Computable(scenario_params[FmipFields[i]],
                        scenario_params["social_discount_rate"])
    THEN [kind |-> "arithmetic"]
    ELSE FirstFailure(scenario_params, i + 1)

\* C4 amended: calculate_fmip(name) returns a result record if and only if name
\* is a key, the scenario holds all four fields and each of its three present
\* values can be computed (the sequence is empty, or its flows and the rate are
\* numeric and the rate is not -1).  An unknown name gives a not-found error
\* naming the scenario and listing every key.  For a known name the fields are
\* read in the order public_investment, tax_revenue, fiscal_avoidance (each
\* followed by social_discount_rate): the first absent field gives a
\* required-field error naming scenario and field, unless a present value read
\* before it cannot be computed, which raises ZeroDivisionError or TypeError.
\* In every error case no result is produced and the mapping is unchanged.
C4_ResultIffComputable ==
    ReturnedFrom("calculate_fmip") =>
        /\ IF ~HasKey(parameters, Arg(1)) THEN NamesNotFound(Arg(1))
           ELSE LET first == FirstFailure(GetItem(parameters, Arg(1)), 1)
                IN  CASE first.kind = "none" ->
                            ~IsExc(outcome) /\ outcome.scenario = Arg(1)
                      [] first.kind = "absent" ->
                            NamesMissing(Arg(1), {first.field})
                      [] first.kind = "arithmetic" ->
                            /\ IsExc(outcome)
                            /\ outcome.exc \in {"ZeroDivisionError", "TypeError"}
        /\ IsExc(outcome) => parameters = supplied.parameters

C4_Witness ==
    /\ ReturnedFrom("calculate_fmip")
    /\ HasKey(parameters, Arg(1))
    /\ NamesMissing(Arg(1), {"tax_revenue_cashflows"})

C4_WitnessNotFound ==
    /\ ReturnedFrom("calculate_fmip")
    /\ parameters # << >>
    /\ NamesNotFound(Arg(1))

Override(d, key, value) ==
    [k \in DOMAIN d \cup {key} |-> IF k = key THEN value ELSE d[k]]

\* the rows of the points whose single-field override lets calculate_lroma succeed
RECURSIVE ValidLromaRows(_, _)
ValidLromaRows(base_params, points) ==
    IF points = << >> THEN << >>
    ELSE LET p == Head(points)
             lroma == calculate_lroma(Override(base_params, p.parameter, p.value))
         IN  (IF IsExc(lroma) THEN << >>
              ELSE << [parameter |-> p.parameter, value |-> p.value,
                       lroma |-> lroma] >>)
             \o ValidLromaRows(base_params, Tail(points))

\* C5: LROMACalculator.sensitivity_analysis never aborts the batch: it returns
\* normally, and the rows are exactly, in iteration order, one row {parameter,
\* value, lroma} per override that makes calculate_lroma succeed; a failing
\* override (missing key, zero division, non-numeric value) contributes no row.
C5_NeverAborts ==
    ReturnedFrom("lroma_sensitivity_analysis") =>
        /\ ~IsExc(outcome)
        /\ outcome.rows = ValidLromaRows(supplied.vehicle_params, Points(Arg(1)))

\* the scenario one sweep point evaluates
Perturbed(scenario_params, p) ==
    IF EndsWithCashflows(p.parameter)
    THEN IF p.parameter \in DOMAIN scenario_params
         THEN LET scaled == ScaleAll(scenario_params[p.parameter], p.value)
              IN  IF IsExc(scaled) THEN scaled
                  ELSE [params |-> Override(scenario_params, p.parameter, scaled.list)]
         ELSE KeyError(p.parameter)
    ELSE [params |-> Override(scenario_params, p.parameter, p.value)]

\* the points of a sweep that compute successfully
RECURSIVE ValidFmipPoints(_, _)
ValidFmipPoints(scenario_params, points) ==
    IF points = << >> THEN << >>
    ELSE LET p == Head(points)
             q == Perturbed(scenario_params, p)
         IN  (IF IsExc(q) \/ IsExc(FmipOf("perturbed", q.params)) THEN << >>
              ELSE << p >>)
             \o ValidFmipPoints(scenario_params, Tail(points))

\* C6: FMIPCalculator.sensitivity_analysis never propagates an error to its
\* caller: for every base_scenario name and parameter_variations the call
\* returns rows {parameter, value, fmip, scenario} for exactly the sweep points
\* that computed successfully, in iteration order (none for an unknown scenario).
C6_NeverPropagates ==
    ReturnedFrom("fmip_sensitivity_analysis") =>
        /\ ~IsExc(outcome)
        /\ [i \in 1..Len(outcome.rows) |->
               [parameter |-> outcome.rows[i].parameter,
                value |-> outcome.rows[i].value]]
           = IF HasKey(supplied.parameters, Arg(1))
             THEN ValidFmipPoints(GetItem(supplied.parameters, Arg(1)),
                                  Points(Arg(2)))
             ELSE << >>
        /\ \A i \in 1..Len(outcome.rows) :
               /\ DOMAIN outcome.rows[i] = {"parameter", "value", "fmip", "scenario"}
               /\ outcome.rows[i].scenario = Arg(1)

Requested(scenarios) ==
    IF scenarios.none
    THEN << "base_case", "pessimistic", "optimistic", "ssb_disruption" >>
    ELSE scenarios.names

\* one row per name whose calculate_fmip succeeds
RECURSIVE SuccessRows(_, _)
SuccessRows(params, names) ==
    IF names = << >> THEN << >>
    ELSE LET r == calculate_fmip(params, Head(names))
         IN  (IF IsExc(r) THEN << >>
              ELSE << [scenario |-> Head(names),
                       fmip |-> r.fmip,
                       public_investment |-> r.pv_public_investment,
                       tax_revenues |-> r.pv_tax_revenues,
                       fiscal_avoidance |-> r.pv_fiscal_avoidance,
                       total_fiscal_return |-> r.total_fiscal_return] >>)
             \o SuccessRows(params, Tail(names))

\* C7: scenario_comparison(names) returns exactly one row per requested name for
\* which calculate_fmip succeeds, in request order, with the six columns equal
\* to that scenario's calculate_fmip result; a name that is unknown or whose
\* scenario lacks a field yields no row and does not stop the remaining names;
\* with names omitted the request is base_case, pessimistic, optimistic,
\* ssb_disruption.
C7_OneRowPerSuccess ==
    ReturnedFrom("scenario_comparison") =>
        /\ ~IsExc(outcome)
        /\ outcome.rows = SuccessRows(parameters, Requested(Arg(1)))

\* C8: no operation mutates caller-owned or constructor-supplied data: after any
\* sequence of calls (failing or row-skipping ones included) the caller's
\* vehicle_params / base_params mapping, the calculator's parameters mapping
\* and every scenario's cash-flow sequences and discount rate equal their
\* values before the calls.
C8_NoMutation ==
    /\ vehicle_params = supplied.vehicle_params
    /\ parameters = supplied.parameters

C8_Witness ==
    /\ ReturnedFrom("fmip_sensitivity_analysis")
    /\ ~IsExc(outcome)
    /\ Len(outcome.rows) >= 2
    /\ Len(outcome.warnings) >= 1

C8_WitnessLroma ==
    /\ ReturnedFrom("lroma_sensitivity_analysis")
    /\ ~IsExc(outcome)
    /\ Len(outcome.rows) >= 2
    /\ Len(outcome.warnings) >= 1

NumericCall ==
    /\ \A i \in 1..Len(Arg(1)) : IsNum(Arg(1)[i])
    /\ IsNum(Arg(2))
    /\ RCmp(Arg(2).q, RatOf(-1, 1)) # 0

\* C9: the two present-value computations differ exactly in index origin: the
\* NPV inside calculate_lroma and LROMACalculator.calculate_npv discount the
\* i-th element (i from 0) by (1+r)^i, the first element being undiscounted;
\* FMIPCalculator.calculate_present_value discounts it by (1+r)^(i+1) and
\* returns 0 for an empty sequence.
C9_IndexOrigins ==
    /\ ReturnedFrom("calculate_npv") /\ NumericCall
       => ~IsExc(outcome) /\ REq(outcome.q, DiscountedSum(Arg(1), Arg(2).q, 0))
    /\ ReturnedFrom("calculate_present_value") /\ NumericCall
       => ~IsExc(outcome) /\ REq(outcome.q, DiscountedSum(Arg(1), Arg(2).q, 1))
    /\ C1_Case
       => /\ ~IsExc(outcome)
          /\ REq(RMul(outcome.q,
                      RMul(vehicle_params["annual_distance"].q,
                           Annuity(vehicle_params["discount_rate"].q,
                                   LifeOf(vehicle_params)))),
                 NetPresentValue(vehicle_params))

\* the part of C9 the code meets: calculate_present_value and the NPV inside
\* calculate_lroma
C9_ExceptCalculateNpv ==
    /\ ReturnedFrom("calculate_present_value") /\ NumericCall
       => ~IsExc(outcome) /\ REq(outcome.q, DiscountedSum(Arg(1), Arg(2).q, 1))
    /\ C1_Case
       => /\ ~IsExc(outcome)
          /\ REq(RMul(outcome.q,
                      RMul(vehicle_params["annual_distance"].q,
                           Annuity(vehicle_params["discount_rate"].q,
                                   LifeOf(vehicle_params)))),
                 NetPresentValue(vehicle_params))

\* two results of the arithmetic are the same number
SameValue(v, w) ==
    IF v.kind = "inf" \/ w.kind = "inf" THEN v.kind = w.kind
    ELSE REq(v.q, w.q)

\* the mapping with the scenario called name bound to params instead
Replaced(params_map, name, params) ==
    [i \in 1..Len(params_map) |->
        IF params_map[i].name = name THEN [name |-> name, params |-> params]
        ELSE params_map[i]]

\* every element of one sequence multiplied by value
TimesEach(flows, value) == [j \in 1..Len(flows) |-> PyMul(flows[j], value)]

\* the base scenario with the one field scaled (a name ending with
\* "_cashflows") or replaced (any other name)
Varied(scenario_params, name, value) ==
    IF EndsWithCashflows(name)
    THEN [scenario_params EXCEPT ![name] = TimesEach(@, value)]
    ELSE Override(scenario_params, name, value)

\* calculate_fmip of the base scenario so varied, in the caller's mapping
VariedFmip(name, value) ==
    calculate_fmip(
        Replaced(supplied.parameters, Arg(1),
                 Varied(GetItem(supplied.parameters, Arg(1)), name, value)),
        Arg(1))

\* C11: in FMIPCalculator.sensitivity_analysis every emitted row carries
\* parameter = name, value = value and scenario = base_scenario (the name the
\* caller passed, the temp key appearing nowhere in the row) for a sweep point
\* (name, value), the rows following the points that compute in iteration
\* order; its fmip equals calculate_fmip of the base
\* scenario with every element of that one sequence multiplied by value when
\* the name ends with "_cashflows", and with that one field replaced by value
\* otherwise, all other fields unchanged.
C11_ScaleOrReplace ==
    ReturnedFrom("fmip_sensitivity_analysis") /\ ~IsExc(outcome) =>
        /\ [i \in 1..Len(outcome.rows) |->
               [parameter |-> outcome.rows[i].parameter,
                value |-> outcome.rows[i].value]]
           = ValidFmipPoints(GetItem(supplied.parameters, Arg(1)), Points(Arg(2)))
        /\ \A i \in 1..Len(outcome.rows) :
               LET row == outcome.rows[i]
                   expected == VariedFmip(row.parameter, row.value)
               IN  /\ DOMAIN row = {"parameter", "value", "fmip", "scenario"}
                   /\ row.scenario = Arg(1)
                   /\ ~IsExc(expected)
                   /\ SameValue(row.fmip, expected.fmip)

\* a sweep that emitted a scaled row and a replaced row, the scaled one with
\* a multiplier other than that of the base scenario
C11_Witness ==
    /\ ReturnedFrom("fmip_sensitivity_analysis")
    /\ ~IsExc(outcome)
    /\ \E i, j \in 1..Len(outcome.rows) :
           /\ EndsWithCashflows(outcome.rows[i].parameter)
           /\ ~SameValue(outcome.rows[i].fmip,
                         calculate_fmip(supplied.parameters, Arg(1)).fmip)
           /\ ~EndsWithCashflows(outcome.rows[j].parameter)

\* the number of years cash flows are generated for: vehicle_life, or none
\* when it is not positive
Years(vp) == IF Gt(vp["vehicle_life"], PyInt(0)) THEN LifeOf(vp) ELSE 0

MinusOne(vp) == REq(vp["discount_rate"].q, RatOf(-1, 1))

\* pv_distance == 0, for a discount rate other than -1
ZeroPvDistance(vp) ==
    /\ ~MinusOne(vp)
    /\ RSign(RMul(vp["annual_distance"].q,
                  Annuity(vp["discount_rate"].q, Years(vp)))) = 0

\* C12: LROMACalculator.calculate_lroma, on numeric parameters with an integer
\* vehicle_life, treats a zero normalizing quantity as a defined result:
\* whenever pv_distance == 0 with discount_rate != -1 (annual_distance == 0 or
\* vehicle_life == 0 among the cases) it returns 0 whatever capex is and
\* raises nothing; the guard covers only the denominator, so with
\* discount_rate == -1 and vehicle_life >= 1 the call raises
\* ZeroDivisionError instead of returning a value.
C12_ZeroDenominator ==
    ReturnedFrom("calculate_lroma") /\ WellTyped(vehicle_params) =>
        /\ ZeroPvDistance(vehicle_params)
           => /\ ~IsExc(outcome)
              /\ outcome = PyInt(0)
        /\ (\/ RSign(vehicle_params["annual_distance"].q) = 0
            \/ RSign(vehicle_params["vehicle_life"].q) = 0)
           /\ ~MinusOne(vehicle_params)
           => ZeroPvDistance(vehicle_params)
        /\ MinusOne(vehicle_params) /\ Years(vehicle_params) >= 1
           => /\ IsExc(outcome)
              /\ outcome.exc = "ZeroDivisionError"

\* a vehicle that covers no distance over a positive life, its outlay
\* positive: the call returned 0
C12_Witness ==
    /\ ReturnedFrom("calculate_lroma")
    /\ WellTyped(vehicle_params)
    /\ ZeroPvDistance(vehicle_params)
    /\ Years(vehicle_params) >= 1
    /\ Gt(vehicle_params["capex"], PyInt(1))
    /\ outcome = PyInt(0)

\* a life of zero years
C12_WitnessNoLife ==
    /\ ReturnedFrom("calculate_lroma")
    /\ WellTyped(vehicle_params)
    /\ Years(vehicle_params) = 0
    /\ Gt(vehicle_params["annual_distance"], PyInt(0))
    /\ outcome = PyInt(0)

\* distance discounted at -2 over two years cancels
C12_WitnessCancels ==
    /\ ReturnedFrom("calculate_lroma")
    /\ WellTyped(vehicle_params)
    /\ ZeroPvDistance(vehicle_params)
    /\ Years(vehicle_params) >= 1
    /\ Gt(vehicle_params["annual_distance"], PyInt(0))
    /\ outcome = PyInt(0)

\* a discount rate of -1 over a positive life: the division error
C12_WitnessDivision ==
    /\ ReturnedFrom("calculate_lroma")
    /\ WellTyped(vehicle_params)
    /\ MinusOne(vehicle_params)
    /\ Years(vehicle_params) >= 1
    /\ IsExc(outcome)
    /\ outcome.exc = "ZeroDivisionError"

====
